---- MODULE Spec2Model ----
(***************************************************************************)
(* Signaling server of QuantumSync (src/src/server.js): the RoomManager    *)
(* registry (rooms, participant records, userSocketMap), the socket.io     *)
(* broadcast groups, and the socket event handlers that act on them.       *)
(*                                                                         *)
(* Every handler runs to completion on Node's single thread, so each       *)
(* handler is one action.  Time is counted in minutes.                     *)
(***************************************************************************)
EXTENDS Integers, Sequences, FiniteSets, TLC

(* ---------------------------------------------------------------------- *)
(* Inputs the clients may send, and the bounds of the model.               *)
(* ---------------------------------------------------------------------- *)

\* Room identifiers a client may name.  They are opaque strings to the
\* server, so the i-th distinct room to be joined is called RoomOrder[i].
RoomOrder == <<"r1", "r2">>

RoomIds == {RoomOrder[i] : i \in 1..Len(RoomOrder)}

\* Identities (userId) a client may declare; the i-th distinct identity to
\* join is called UserOrder[i].
UserOrder == <<"u1", "u2", "u3">>

UserIds == {UserOrder[i] : i \in 1..Len(UserOrder)}

\* Display names a client may declare.  No handler reads a userName, it is
\* only stored and sent on.
UserNames == {"Alice"}

\* Transport sessions: socket.io gives every connection a fresh id, so the
\* ids are handed out in this order and never reused.
SocketOrder == <<"s1", "s2">>

\* The transport sessions of SpecUnicast, where a third session looks on.
UnicastOrder == <<"s1", "s2", "s3">>

SocketIds == {UnicastOrder[i] : i \in 1..Len(UnicastOrder)}

\* RoomManager.maxRoomSize: parseInt(process.env.MAX_ROOM_SIZE) || 10.
\* The model runs the server with a small MAX_ROOM_SIZE.
maxRoomSize == 2

\* The idle threshold of cleanup(), 5 * 60 * 1000 ms, in minutes.
timeout == 5

\* The clock stops at MaxTime minutes.
MaxTime == 6

\* Amounts of time (minutes) that may pass between two events.
TickSteps == {6}

\* The number of join-room events handled in a run of every specification
\* but SpecCapacity.
MaxJoins == 2

\* The number of join-room events handled in a run of SpecCapacity.
MaxCapacityJoins == 3

VARIABLES
    rooms,          \* RoomManager.rooms: roomId -> [participants, createdAt, active]
    userSocketMap,  \* RoomManager.userSocketMap: userId -> socketId
    groups,         \* socket.io broadcast groups: roomId -> set of sockets
    connected,      \* the sockets whose connection is open
    closed,         \* the sockets whose connection has ended
    now,            \* Date.now(), in minutes
    sent,           \* the messages delivered by the handler that ran last
    joined,         \* history: roomId -> identities joined and not left since
    joins,          \* history: the number of join-room events handled
    usersSeen,      \* history: the number of distinct identities that joined
    roomsSeen,      \* history: the number of distinct rooms that were joined
    logged,         \* the logger lines of the handler that ran last that tell
                    \* of an eviction (cleanup) or of a relay without target
    signaling       \* the Maps of the socketToUser-based server
                    \* (src/unnamed/part_000): [rooms, socketToUser, userToSocket]

vars == <<rooms, userSocketMap, groups, connected, closed, now, sent, joined,
          joins, usersSeen, roomsSeen, logged, signaling>>

\* The history variables that count and name the join-room events.
counters == <<joins, usersSeen, roomsSeen>>

(* ---------------------------------------------------------------------- *)
(* JavaScript Map, as used for room.participants: a sequence of records    *)
(* in insertion order, keyed by userId.                                    *)
(* ---------------------------------------------------------------------- *)

MapHas(ps, userId) == \E i \in 1..Len(ps) : ps[i].userId = userId

MapGet(ps, userId) == ps[CHOOSE i \in 1..Len(ps) : ps[i].userId = userId]

\* Map.set: an existing key keeps its place, a new key goes last.
MapSet(ps, userId, rec) ==
    IF MapHas(ps, userId)
    THEN [i \in 1..Len(ps) |-> IF ps[i].userId = userId THEN rec ELSE ps[i]]
    ELSE Append(ps, rec)

MapDelete(ps, userId) == SelectSeq(ps, LAMBDA p : p.userId # userId)

\* Map.delete on a Map held as a function.
Remove(f, k) == [x \in (DOMAIN f) \ {k} |-> f[x]]

\* Map.set on a Map held as a function.
Put(f, k, v) == [x \in (DOMAIN f) \cup {k} |-> IF x = k THEN v ELSE f[x]]

(* ---------------------------------------------------------------------- *)
(* RoomManager.  A registry value is [rooms, userSocketMap].               *)
(* ---------------------------------------------------------------------- *)

Registry == [rooms |-> rooms, userSocketMap |-> userSocketMap]

\* createRoom(roomId): creates the room record when the room is absent.
createRoom(rs, roomId, t) ==
    IF roomId \notin DOMAIN rs
    THEN Put(rs, roomId, [participants |-> <<>>, createdAt |-> t, active |-> TRUE])
    ELSE rs

\* The participant record joinRoom writes.
NewParticipant(userId, socketId, userName, t) ==
    [socketId |-> socketId, userId |-> userId, userName |-> userName,
     joinedAt |-> t, videoEnabled |-> TRUE, audioEnabled |-> TRUE,
     lastSeen |-> t]

\* RoomIsFull with the comparison off by one.
RoomIsFullOffByOne(room) == Len(room.participants) > maxRoomSize

\* The capacity test of joinRoom.
RoomIsFull(room) == Len(room.participants) >= maxRoomSize

\* joinRoom with the index written before the capacity test.
joinRoomIndexFirst(reg, roomId, userId, socketId, userName, t) ==
    LET rs   == createRoom(reg.rooms, roomId, t)
        room == rs[roomId]
        usm  == Put(reg.userSocketMap, userId, socketId)
    IN  IF RoomIsFull(room)
        THEN [threw |-> TRUE, rooms |-> rs, userSocketMap |-> usm]
        ELSE [threw |-> FALSE,
              rooms |-> Put(rs, roomId,
                            [room EXCEPT !.participants =
                                MapSet(@, userId,
                                       NewParticipant(userId, socketId, userName, t))]),
              userSocketMap |-> usm]

\* joinRoom(roomId, userId, socketId, userName) at time t: the registry it
\* leaves and whether it threw "Room is full".
joinRoom(reg, roomId, userId, socketId, userName, t) ==
    LET rs   == createRoom(reg.rooms, roomId, t)
        room == rs[roomId]
    IN  IF RoomIsFull(room)
        THEN [threw |-> TRUE, rooms |-> rs, userSocketMap |-> reg.userSocketMap]
        ELSE [threw |-> FALSE,
              rooms |-> Put(rs, roomId,
                            [room EXCEPT !.participants =
                                MapSet(@, userId,
                                       NewParticipant(userId, socketId, userName, t))]),
              userSocketMap |-> Put(reg.userSocketMap, userId, socketId)]

\* leaveRoom that never deletes the room.
leaveRoomKeepRoom(reg, roomId, userId) ==
    IF roomId \in DOMAIN reg.rooms
    THEN [rooms |-> Put(reg.rooms, roomId,
                        [reg.rooms[roomId] EXCEPT !.participants = MapDelete(@, userId)]),
          userSocketMap |-> Remove(reg.userSocketMap, userId)]
    ELSE reg

\* leaveRoom that tests for the empty room before it deletes the participant.
leaveRoomTestFirst(reg, roomId, userId) ==
    IF roomId \in DOMAIN reg.rooms
    THEN LET room == reg.rooms[roomId]
         IN  [rooms |-> IF Len(room.participants) = 0
                        THEN Remove(reg.rooms, roomId)
                        ELSE Put(reg.rooms, roomId,
                                 [room EXCEPT !.participants = MapDelete(@, userId)]),
              userSocketMap |-> Remove(reg.userSocketMap, userId)]
    ELSE reg

\* leaveRoom that leaves the index entry of userId in userSocketMap.
leaveRoomKeepIndex(reg, roomId, userId) ==
    IF roomId \in DOMAIN reg.rooms
    THEN LET room == reg.rooms[roomId]
             ps   == MapDelete(room.participants, userId)
         IN  [rooms |-> IF Len(ps) = 0
                        THEN Remove(reg.rooms, roomId)
                        ELSE Put(reg.rooms, roomId, [room EXCEPT !.participants = ps]),
              userSocketMap |-> reg.userSocketMap]
    ELSE reg

\* leaveRoom(roomId, userId).
leaveRoom(reg, roomId, userId) ==
    IF roomId \in DOMAIN reg.rooms
    THEN LET room == reg.rooms[roomId]
             ps   == MapDelete(room.participants, userId)
         IN  [rooms |-> IF Len(ps) = 0
                        THEN Remove(reg.rooms, roomId)
                        ELSE Put(reg.rooms, roomId, [room EXCEPT !.participants = ps]),
              userSocketMap |-> Remove(reg.userSocketMap, userId)]
    ELSE reg

\* getRoomParticipants(roomId).
getRoomParticipants(rs, roomId) ==
    IF roomId \in DOMAIN rs THEN rs[roomId].participants ELSE <<>>

\* leaveRoom called for each pair of a set of <<roomId, userId>> pairs.
RECURSIVE leaveAll(_, _)
leaveAll(reg, pairs) ==
    IF pairs = {} THEN reg
    ELSE LET p == CHOOSE q \in pairs : TRUE
         IN  leaveAll(leaveRoom(reg, p[1], p[2]), pairs \ {p})

\* cleanup() whose threshold is in the wrong unit, sixty times too long.
StalePairsSeconds(rs, t) ==
    {<<r, u>> \in RoomIds \X UserIds :
        /\ r \in DOMAIN rs
        /\ MapHas(rs[r].participants, u)
        /\ t - MapGet(rs[r].participants, u).lastSeen > timeout * 60}

\* The pairs cleanup() calls leaveRoom for at time t: deleting the entry a
\* Map iteration stands on does not disturb the iteration, so every
\* participant of every room is tested.
StalePairs(rs, t) ==
    {<<r, u>> \in RoomIds \X UserIds :
        /\ r \in DOMAIN rs
        /\ MapHas(rs[r].participants, u)
        /\ t - MapGet(rs[r].participants, u).lastSeen > timeout}

\* The pairs handleUserDisconnect(socketId) calls leaveRoom for: in every
\* room, the first participant whose socketId is the one given.
DisconnectPairs(rs, socketId) ==
    {<<r, u>> \in RoomIds \X UserIds :
        /\ r \in DOMAIN rs
        /\ \E i \in 1..Len(rs[r].participants) :
              /\ rs[r].participants[i].userId = u
              /\ rs[r].participants[i].socketId = socketId
              /\ \A j \in 1..(i - 1) : rs[r].participants[j].socketId # socketId}

(* ---------------------------------------------------------------------- *)
(* socket.io delivery.                                                     *)
(* ---------------------------------------------------------------------- *)

\* socket.to(roomId).emit: every member of the group but the emitting socket.
SocketTo(grp, socketId, roomId) == grp[roomId] \ {socketId}

\* history update: the pairs leaveRoom was called for
Left(j, pairs) == [r \in RoomIds |-> j[r] \ {p[2] : p \in {q \in pairs : q[1] = r}}]

(* ---------------------------------------------------------------------- *)
(* Initial state: a constructed RoomManager, no connection.                *)
(* ---------------------------------------------------------------------- *)

Init ==
    /\ rooms = << >>
    /\ userSocketMap = << >>
    /\ groups = [r \in RoomIds |-> {}]
    /\ connected = {}
    /\ closed = {}
    /\ now = 0
    /\ sent = {}
    /\ joined = [r \in RoomIds |-> {}]
    /\ joins = 0
    /\ usersSeen = 0
    /\ roomsSeen = 0
    /\ logged = {}
    /\ signaling = [rooms |-> << >>, socketToUser |-> << >>, userToSocket |-> << >>]

(* ---------------------------------------------------------------------- *)
(* Events.                                                                 *)
(* ---------------------------------------------------------------------- *)

\* io.on("connection"): the next unused socket id of order connects.
ConnectNext(order) ==
    \E i \in 1..Len(order) :
        /\ order[i] \notin connected \cup closed
        /\ \A j \in 1..(i - 1) : order[j] \in connected \cup closed
        /\ connected' = connected \cup {order[i]}
        /\ sent' = {}
        /\ logged' = {}
        /\ UNCHANGED <<rooms, userSocketMap, groups, closed, now, joined, counters, signaling>>

Connect == ConnectNext(SocketOrder)

\* Date.now() moves on.
Tick ==
    \E d \in TickSteps :
        /\ now + d <= MaxTime
        /\ now' = now + d
        /\ sent' = {}
        /\ logged' = {}
        /\ UNCHANGED <<rooms, userSocketMap, groups, connected, closed, joined, counters, signaling>>

\* The entry of the room-joined acknowledgement for participant p.
Snapshot(p) ==
    [userId |-> p.userId, userName |-> p.userName, socketId |-> p.socketId,
     videoEnabled |-> p.videoEnabled, audioEnabled |-> p.audioEnabled,
     joinedAt |-> p.joinedAt]

\* socket.on("join-room").
JoinRoomEvent(s, roomId, userId, userName) ==
    /\ s \in connected
    /\ LET res == joinRoom(Registry, roomId, userId, s, userName, now)
       IN  /\ rooms' = res.rooms
           /\ userSocketMap' = res.userSocketMap
           /\ IF res.threw
              THEN /\ sent' = {[event |-> "room-error", to |-> s,
                                message |-> "Room is full"]}
                   /\ UNCHANGED <<groups, joined>>
              ELSE /\ groups' = [groups EXCEPT ![roomId] = @ \cup {s}]
                   /\ joined' = [joined EXCEPT ![roomId] = @ \cup {userId}]
                   /\ sent' =
                        {[event |-> "room-joined", to |-> s, roomId |-> roomId,
                          participants |->
                              SelectSeq([i \in 1..Len(res.rooms[roomId].participants) |->
                                            Snapshot(res.rooms[roomId].participants[i])],
                                        LAMBDA p : p.userId # userId),
                          userId |-> userId, userName |-> userName,
                          socketId |-> s]}
                        \cup
                        {[event |-> "user-joined", to |-> t, roomId |-> roomId,
                          userId |-> userId, userName |-> userName, socketId |-> s,
                          videoEnabled |-> TRUE, audioEnabled |-> TRUE,
                          joinedAt |-> now]
                            : t \in SocketTo(groups', s, roomId)}
    /\ logged' = {}
    /\ UNCHANGED <<connected, closed, now, signaling>>

\* socket.on("leave-room").
LeaveRoomEvent(s, roomId, userId) ==
    /\ s \in connected
    /\ LET res == leaveRoom(Registry, roomId, userId)
       IN  /\ rooms' = res.rooms
           /\ userSocketMap' = res.userSocketMap
    /\ groups' = [groups EXCEPT ![roomId] = @ \ {s}]
    /\ joined' = Left(joined, {<<roomId, userId>>})
    /\ sent' = {[event |-> "user-left", to |-> t, roomId |-> roomId, userId |-> userId]
                    : t \in SocketTo(groups', s, roomId)}
    /\ logged' = {}
    /\ UNCHANGED <<connected, closed, now, counters, signaling>>

\* socket.on("disconnect"): socket.io has taken the socket out of its groups
\* before the handler runs handleUserDisconnect(socket.id).
Disconnect(s) ==
    /\ s \in connected
    /\ connected' = connected \ {s}
    /\ closed' = closed \cup {s}
    /\ groups' = [r \in RoomIds |-> groups[r] \ {s}]
    /\ LET pairs == DisconnectPairs(rooms, s)
           res   == leaveAll(Registry, pairs)
       IN  /\ rooms' = res.rooms
           /\ userSocketMap' = res.userSocketMap
           /\ joined' = Left(joined, pairs)
           /\ sent' = UNION {
                  {[event |-> "user-left", to |-> t, roomId |-> p[1], userId |-> p[2],
                    userName |-> MapGet(rooms[p[1]].participants, p[2]).userName]
                      : t \in SocketTo(groups', s, p[1])} : p \in pairs}
    /\ logged' = {}
    /\ UNCHANGED <<now, counters, signaling>>

\* The line cleanup() logs for the eviction of userId from roomId.
CleanedUp(roomId, userId) ==
    [level |-> "info", text |-> "Cleaned up inactive user",
     userId |-> userId, roomId |-> roomId]

\* setInterval(() => roomManager.cleanup(), 60 * 1000): nothing is emitted
\* and no socket leaves a group.
Cleanup ==
    /\ LET pairs == StalePairs(rooms, now)
           res   == leaveAll(Registry, pairs)
       IN  /\ rooms' = res.rooms
           /\ userSocketMap' = res.userSocketMap
           /\ joined' = Left(joined, pairs)
           /\ logged' = {CleanedUp(p[1], p[2]) : p \in pairs}
    /\ sent' = {}
    /\ UNCHANGED <<groups, connected, closed, now, counters, signaling>>

\* updateParticipantStatus that updates the record of userId in every room
\* that holds one.
updateParticipantStatusEveryRoom(rs, roomId, userId, updates, t) ==
    [r \in DOMAIN rs |->
        [rs[r] EXCEPT !.participants =
            [i \in 1..Len(@) |->
                IF @[i].userId = userId
                THEN [f \in DOMAIN @[i] \cup DOMAIN updates |->
                        IF f = "lastSeen" THEN t
                        ELSE IF f \in DOMAIN updates THEN updates[f] ELSE @[i][f]]
                ELSE @[i]]]]

\* updateParticipantStatus(roomId, userId, updates) at time t; updates is a
\* record holding the fields to assign (Object.assign), lastSeen is set last.
updateParticipantStatus(rs, roomId, userId, updates, t) ==
    IF roomId \in DOMAIN rs /\ MapHas(rs[roomId].participants, userId)
    THEN LET old == MapGet(rs[roomId].participants, userId)
             new == [f \in DOMAIN old \cup DOMAIN updates |->
                        IF f = "lastSeen" THEN t
                        ELSE IF f \in DOMAIN updates THEN updates[f] ELSE old[f]]
         IN  Put(rs, roomId,
                 [rs[roomId] EXCEPT !.participants = MapSet(@, userId, new)])
    ELSE rs

\* socket.on("heartbeat"): lastSeen is refreshed in every room that holds
\* the userId the client names.
RECURSIVE touchAll(_, _, _, _)
touchAll(rs, todo, userId, t) ==
    IF todo = {} THEN rs
    ELSE LET r == CHOOSE x \in todo : TRUE
         IN  touchAll(IF MapHas(rs[r].participants, userId)
                      THEN updateParticipantStatus(rs, r, userId, << >>, t)
                      ELSE rs,
                      todo \ {r}, userId, t)

Heartbeat(s, userId) ==
    /\ s \in connected
    /\ rooms' = touchAll(rooms, DOMAIN rooms, userId, now)
    /\ sent' = {}
    /\ logged' = {}
    /\ UNCHANGED <<userSocketMap, groups, connected, closed, now, joined, counters, signaling>>

\* socket.on("toggle-video").
ToggleVideo(s, roomId, userId, enabled) ==
    /\ s \in connected
    /\ rooms' = updateParticipantStatus(rooms, roomId, userId,
                                        [videoEnabled |-> enabled], now)
    /\ sent' = {[event |-> "video-toggled", to |-> t, userId |-> userId,
                 enabled |-> enabled] : t \in SocketTo(groups, s, roomId)}
    /\ logged' = {}
    /\ UNCHANGED <<userSocketMap, groups, connected, closed, now, joined, counters, signaling>>

\* socket.on("toggle-audio").
ToggleAudio(s, roomId, userId, enabled) ==
    /\ s \in connected
    /\ rooms' = updateParticipantStatus(rooms, roomId, userId,
                                        [audioEnabled |-> enabled], now)
    /\ sent' = {[event |-> "audio-toggled", to |-> t, userId |-> userId,
                 enabled |-> enabled] : t \in SocketTo(groups, s, roomId)}
    /\ logged' = {}
    /\ UNCHANGED <<userSocketMap, groups, connected, closed, now, joined, counters, signaling>>

\* getSocketId(userId); undefined is the empty set here, a socket id the
\* singleton holding it.
getSocketId(usm, userId) == IF userId \in DOMAIN usm THEN {usm[userId]} ELSE {}

\* A relay that goes to every other open connection instead of the target's.
RelayTargetsBroadcast(usm, conn, s, to) ==
    IF getSocketId(usm, to) = {} THEN {} ELSE conn \ {s}

\* socket.on("offer" | "answer" | "ice-candidate"): socket.to(targetSocketId)
\* reaches the socket with that id when its connection is open and it is not
\* the emitting socket.  (Room identifiers and socket ids are different
\* strings here, so no socket has joined a group named like a socket id.)
RelayTargets(usm, conn, s, to) == (getSocketId(usm, to) \cap conn) \ {s}

\* The line a relay handler logs when getSocketId(to) is undefined.
TargetNotFound(to) ==
    [level |-> "warn", text |-> "Target user not found or disconnected",
     userId |-> to]

Relay(kind, s, to, from) ==
    /\ s \in connected
    /\ sent' = {[event |-> kind, to |-> t, from |-> from]
                    : t \in RelayTargets(userSocketMap, connected, s, to)}
    /\ logged' = IF getSocketId(userSocketMap, to) = {}
                 THEN {TargetNotFound(to)}
                 ELSE {}
    /\ UNCHANGED <<rooms, userSocketMap, groups, connected, closed, now, joined, counters, signaling>>

Offer(s, to, from) == Relay("offer", s, to, from)

Answer(s, to, from) == Relay("answer", s, to, from)

IceCandidate(s, to, from) == Relay("ice-candidate", s, to, from)

\* io.to(roomId).emit: every member of the group, the emitting socket too.
IoTo(grp, roomId) == grp[roomId]

\* socket.on("send-message"): the message text and the timestamp of the
\* payload are copied into new-message like userId and userName.
SendMessage(s, roomId, userId, userName) ==
    /\ s \in connected
    /\ sent' = {[event |-> "new-message", to |-> t, userId |-> userId,
                 userName |-> userName, type |-> "text"]
                    : t \in IoTo(groups, roomId)}
    /\ logged' = {}
    /\ UNCHANGED <<rooms, userSocketMap, groups, connected, closed, now, joined, counters, signaling>>

\* socket.on("raise-hand").
RaiseHand(s, roomId, userId, userName) ==
    /\ s \in connected
    /\ sent' = {[event |-> "hand-raised", to |-> t, userId |-> userId,
                 userName |-> userName] : t \in SocketTo(groups, s, roomId)}
    /\ logged' = {}
    /\ UNCHANGED <<rooms, userSocketMap, groups, connected, closed, now, joined, counters, signaling>>

\* socket.on("start-screen-share").
StartScreenShare(s, roomId, userId) ==
    /\ s \in connected
    /\ sent' = {[event |-> "screen-share-started", to |-> t, userId |-> userId]
                    : t \in SocketTo(groups, s, roomId)}
    /\ logged' = {}
    /\ UNCHANGED <<rooms, userSocketMap, groups, connected, closed, now, joined, counters, signaling>>

\* socket.on("stop-screen-share").
StopScreenShare(s, roomId, userId) ==
    /\ s \in connected
    /\ sent' = {[event |-> "screen-share-stopped", to |-> t, userId |-> userId]
                    : t \in SocketTo(groups, s, roomId)}
    /\ logged' = {}
    /\ UNCHANGED <<rooms, userSocketMap, groups, connected, closed, now, joined, counters, signaling>>

\* The count of a join-room event, with the identity and the room named in
\* the order of first appearance; limit bounds the number of join-room events.
CountJoin(limit, roomId, userId) ==
    /\ joins < limit
    /\ joins' = joins + 1
    /\ \E i \in 1..Len(UserOrder) :
          /\ i <= usersSeen + 1
          /\ userId = UserOrder[i]
          /\ usersSeen' = IF i > usersSeen THEN i ELSE usersSeen
    /\ \E i \in 1..Len(RoomOrder) :
          /\ i <= roomsSeen + 1
          /\ roomId = RoomOrder[i]
          /\ roomsSeen' = IF i > roomsSeen THEN i ELSE roomsSeen

\* A join-room event, counted.
CountedJoin(limit, s, roomId, userId, userName) ==
    /\ CountJoin(limit, roomId, userId)
    /\ JoinRoomEvent(s, roomId, userId, userName)

(* ---------------------------------------------------------------------- *)
(* The socketToUser-based server (src/unnamed/part_000).  Its state is     *)
(* signaling = [rooms, socketToUser, userToSocket]; rooms maps a roomId to *)
(* a Map of userData records keyed by userId.  It runs on the same         *)
(* socket.io layer: connected, closed, groups, sent.                       *)
(* ---------------------------------------------------------------------- *)

\* if (room.size >= 10)
SignalMaxRoomSize == 10

\* A room-error reply to socket s.
RoomError(s, message) == [event |-> "room-error", to |-> s, message |-> message]

\* The server.js state, which these handlers do not touch.
managed == <<rooms, userSocketMap, joined, now>>

\* socket.on("join-room") of part_000.
SignalJoinRoom(s, roomId, userId, userName) ==
    /\ s \in connected
    /\ logged' = {}
    /\ UNCHANGED <<connected, closed, managed>>
    /\ IF roomId = "" \/ userId = "" \/ userName = ""
       THEN /\ sent' = {RoomError(s, "Missing required fields")}
            /\ UNCHANGED <<signaling, groups>>
       ELSE LET rs   == IF roomId \in DOMAIN signaling.rooms
                        THEN signaling.rooms
                        ELSE Put(signaling.rooms, roomId, <<>>)
                room == rs[roomId]
            IN  IF Len(room) >= SignalMaxRoomSize
                THEN /\ sent' = {RoomError(s, "Room is full (max 10 users)")}
                     /\ signaling' = [signaling EXCEPT !.rooms = rs]
                     /\ UNCHANGED groups
                ELSE IF MapHas(room, userId)
                THEN /\ sent' = {RoomError(s, "User already in room")}
                     /\ signaling' = [signaling EXCEPT !.rooms = rs]
                     /\ UNCHANGED groups
                ELSE LET userData == [socketId |-> s, userId |-> userId,
                                      userName |-> userName, joinedAt |-> now]
                         room2    == MapSet(room, userId, userData)
                     IN  /\ signaling' =
                              [rooms |-> Put(rs, roomId, room2),
                               socketToUser |->
                                   Put(signaling.socketToUser, s,
                                       [userId |-> userId, roomId |-> roomId,
                                        userName |-> userName]),
                               userToSocket |-> Put(signaling.userToSocket, userId, s)]
                         /\ groups' = [groups EXCEPT ![roomId] = @ \cup {s}]
                         /\ sent' =
                              {[event |-> "room-joined", to |-> s, roomId |-> roomId,
                                participants |->
                                    SelectSeq([i \in 1..Len(room2) |->
                                                  [userId |-> room2[i].userId,
                                                   userName |-> room2[i].userName,
                                                   socketId |-> room2[i].socketId]],
                                              LAMBDA p : p.userId # userId),
                                userId |-> userId, userName |-> userName]}
                              \cup
                              {[event |-> "user-joined", to |-> t, userId |-> userId,
                                userName |-> userName, socketId |-> s]
                                  : t \in SocketTo(groups', s, roomId)}

\* The rooms Map after room.delete(userId) and, if that emptied the room,
\* rooms.delete(roomId); rs holds roomId.
SignalRemove(rs, roomId, userId) ==
    LET room == MapDelete(rs[roomId], userId)
    IN  IF Len(room) = 0 THEN Remove(rs, roomId) ELSE Put(rs, roomId, room)

\* The user-left notices of a removal of userId from roomId by socket s:
\* none if there is no such room or the removal emptied it.
SignalUserLeft(rs, grp, s, roomId, userId) ==
    IF roomId \in DOMAIN rs /\ roomId \in DOMAIN SignalRemove(rs, roomId, userId)
    THEN {[event |-> "user-left", to |-> t, userId |-> userId]
              : t \in SocketTo(grp, s, roomId)}
    ELSE {}

\* socket.on("leave-room") of part_000.
SignalLeaveRoom(s, roomId, userId) ==
    /\ s \in connected
    /\ signaling' =
          [rooms |-> IF roomId \in DOMAIN signaling.rooms
                     THEN SignalRemove(signaling.rooms, roomId, userId)
                     ELSE signaling.rooms,
           socketToUser |-> Remove(signaling.socketToUser, s),
           userToSocket |-> Remove(signaling.userToSocket, userId)]
    /\ sent' = SignalUserLeft(signaling.rooms, groups, s, roomId, userId)
    /\ groups' = [groups EXCEPT ![roomId] = @ \ {s}]
    /\ logged' = {}
    /\ UNCHANGED <<connected, closed, managed, counters>>

\* socket.on("disconnect") of part_000: socket.io has taken the socket out
\* of its groups before the handler runs.
SignalDisconnect(s) ==
    /\ s \in connected
    /\ connected' = connected \ {s}
    /\ closed' = closed \cup {s}
    /\ groups' = [r \in RoomIds |-> groups[r] \ {s}]
    /\ IF s \in DOMAIN signaling.socketToUser
       THEN LET user == signaling.socketToUser[s]
            IN  /\ signaling' =
                      [rooms |-> IF user.roomId \in DOMAIN signaling.rooms
                                 THEN SignalRemove(signaling.rooms, user.roomId,
                                                   user.userId)
                                 ELSE signaling.rooms,
                       socketToUser |-> Remove(signaling.socketToUser, s),
                       userToSocket |-> Remove(signaling.userToSocket, user.userId)]
                /\ sent' = SignalUserLeft(signaling.rooms, groups', s, user.roomId,
                                          user.userId)
       ELSE /\ sent' = {}
            /\ UNCHANGED signaling
    /\ logged' = {}
    /\ UNCHANGED <<managed, counters>>

\* The sockets an offer, answer or ice-candidate of socket s for identity
\* to is forwarded to, and the room named in the forwarded message: the
\* set of <<socket, roomId>> pairs, empty when the handler returns early.
SignalTargets(sig, conn, s, to, from) ==
    IF to = "" \/ from = "" THEN {}
    ELSE IF s \notin DOMAIN sig.socketToUser THEN {}
    ELSE LET senderRoomId == sig.socketToUser[s].roomId
         IN  IF senderRoomId \notin DOMAIN sig.rooms THEN {}
             ELSE IF ~MapHas(sig.rooms[senderRoomId], to) THEN {}
             ELSE {<<t, senderRoomId>> :
                      t \in ({MapGet(sig.rooms[senderRoomId], to).socketId} \cap conn)
                                \ {s}}

\* socket.on("offer"), socket.on("answer"), socket.on("ice-candidate") of
\* part_000.
SignalRelay(kind, s, to, from) ==
    /\ s \in connected
    /\ sent' = {[event |-> kind, to |-> p[1], from |-> from, roomId |-> p[2]]
                    : p \in SignalTargets(signaling, connected, s, to, from)}
    /\ logged' = {}
    /\ UNCHANGED <<signaling, groups, connected, closed, managed, counters>>

SignalOffer(s, to, from) == SignalRelay("offer", s, to, from)

SignalAnswer(s, to, from) == SignalRelay("answer", s, to, from)

SignalIceCandidate(s, to, from) == SignalRelay("ice-candidate", s, to, from)

(* ---------------------------------------------------------------------- *)
(* Spec: the registry handlers, the reaper and the clock.                  *)
(* ---------------------------------------------------------------------- *)

Join == \E s \in SocketIds, r \in RoomIds, u \in UserIds, n \in UserNames :
            CountedJoin(MaxJoins, s, r, u, n)

Leave == \E s \in SocketIds, r \in RoomIds, u \in UserIds : LeaveRoomEvent(s, r, u)

Drop == \E s \in SocketIds : Disconnect(s)

Beat == \E s \in SocketIds, u \in UserIds : Heartbeat(s, u)

Next ==
    \/ Connect
    \/ Tick
    \/ Join
    \/ Leave
    \/ Drop
    \/ Cleanup
    \/ Beat

Spec == Init /\ [][Next]_vars

\* Spec with the scheduling the process has: time goes on, and the timer of
\* setInterval keeps calling cleanup().
SpecLive == Init /\ [][Next]_vars /\ WF_vars(Tick) /\ WF_vars(Cleanup)

(* ---------------------------------------------------------------------- *)
(* SpecCapacity: join, leave and disconnect, with enough join-room events  *)
(* to fill a room.                                                         *)
(* ---------------------------------------------------------------------- *)

JoinCapacity == \E s \in SocketIds, r \in RoomIds, u \in UserIds, n \in UserNames :
                    CountedJoin(MaxCapacityJoins, s, r, u, n)

NextCapacity ==
    \/ Connect
    \/ JoinCapacity
    \/ Leave
    \/ Drop

SpecCapacity == Init /\ [][NextCapacity]_vars

(* ---------------------------------------------------------------------- *)
(* SpecRelay: Spec with the three relay handlers.                          *)
(* ---------------------------------------------------------------------- *)

RelayOffer == \E s \in SocketIds, to \in UserIds, from \in UserIds : Offer(s, to, from)

RelayAnswer == \E s \in SocketIds, to \in UserIds, from \in UserIds : Answer(s, to, from)

RelayIce == \E s \in SocketIds, to \in UserIds, from \in UserIds : IceCandidate(s, to, from)

NextRelay ==
    \/ Next
    \/ RelayOffer
    \/ RelayAnswer
    \/ RelayIce

SpecRelay == Init /\ [][NextRelay]_vars

(* ---------------------------------------------------------------------- *)
(* SpecUnicast: three sessions, join, leave, disconnect and the three      *)
(* relay handlers.                                                         *)
(* ---------------------------------------------------------------------- *)

ConnectUnicast == ConnectNext(UnicastOrder)

\* The `from` every relay of SpecUnicast declares: the handlers copy it into
\* the message and read it nowhere else.
UnicastFrom == UserOrder[1]

UnicastOffer == \E s \in SocketIds, to \in UserIds : Offer(s, to, UnicastFrom)

UnicastAnswer == \E s \in SocketIds, to \in UserIds : Answer(s, to, UnicastFrom)

UnicastIce == \E s \in SocketIds, to \in UserIds : IceCandidate(s, to, UnicastFrom)

NextUnicast ==
    \/ ConnectUnicast
    \/ Join
    \/ Leave
    \/ Drop
    \/ UnicastOffer
    \/ UnicastAnswer
    \/ UnicastIce

SpecUnicast == Init /\ [][NextUnicast]_vars

(* ---------------------------------------------------------------------- *)
(* SpecChat: join, leave, disconnect, the reaper, the clock and the chat   *)
(* handler.                                                                *)
(* ---------------------------------------------------------------------- *)

Send == \E s \in SocketIds, r \in RoomIds, u \in UserIds, n \in UserNames :
            SendMessage(s, r, u, n)

NextChat ==
    \/ Connect
    \/ Tick
    \/ Join
    \/ Leave
    \/ Drop
    \/ Cleanup
    \/ Send

SpecChat == Init /\ [][NextChat]_vars

(* ---------------------------------------------------------------------- *)
(* SpecMedia: join, the clock and the two media toggles.                   *)
(* ---------------------------------------------------------------------- *)

Video == \E s \in SocketIds, r \in RoomIds, u \in UserIds, e \in BOOLEAN :
            ToggleVideo(s, r, u, e)

Audio == \E s \in SocketIds, r \in RoomIds, u \in UserIds, e \in BOOLEAN :
            ToggleAudio(s, r, u, e)

NextMedia ==
    \/ Connect
    \/ Tick
    \/ Join
    \/ Video
    \/ Audio

SpecMedia == Init /\ [][NextMedia]_vars

(* ---------------------------------------------------------------------- *)
(* SpecBroadcast: SpecChat with the raise-hand and screen-share handlers.  *)
(* ---------------------------------------------------------------------- *)

Hand == \E s \in SocketIds, r \in RoomIds, u \in UserIds, n \in UserNames :
            RaiseHand(s, r, u, n)

ShareStart == \E s \in SocketIds, r \in RoomIds, u \in UserIds : StartScreenShare(s, r, u)

ShareStop == \E s \in SocketIds, r \in RoomIds, u \in UserIds : StopScreenShare(s, r, u)

NextBroadcast ==
    \/ NextChat
    \/ Hand
    \/ ShareStart
    \/ ShareStop

SpecBroadcast == Init /\ [][NextBroadcast]_vars

(* ---------------------------------------------------------------------- *)
(* SpecSignal: the socketToUser-based server under join-room, leave-room,  *)
(* disconnect and the three relays.                                        *)
(* ---------------------------------------------------------------------- *)

\* The identities a relay declares as its sender: one, or none.
SignalFrom == {UserOrder[1], ""}

SigJoin == \E s \in SocketIds, r \in RoomIds, u \in UserIds, n \in UserNames \cup {""} :
               /\ CountJoin(MaxJoins, r, u)
               /\ SignalJoinRoom(s, r, u, n)

SigLeave == \E s \in SocketIds, r \in RoomIds, u \in UserIds : SignalLeaveRoom(s, r, u)

SigDrop == \E s \in SocketIds : SignalDisconnect(s)

SigOffer == \E s \in SocketIds, to \in UserIds, from \in SignalFrom : SignalOffer(s, to, from)

SigAnswer == \E s \in SocketIds, to \in UserIds, from \in SignalFrom : SignalAnswer(s, to, from)

SigIce == \E s \in SocketIds, to \in UserIds, from \in SignalFrom :
              SignalIceCandidate(s, to, from)

NextSignal ==
    \/ ConnectUnicast
    \/ SigJoin
    \/ SigLeave
    \/ SigDrop
    \/ SigOffer
    \/ SigAnswer
    \/ SigIce

SpecSignal == Init /\ [][NextSignal]_vars

(* ---------------------------------------------------------------------- *)
(* SpecValidation: join, leave and disconnect, where a join-room event may *)
(* carry an empty userName.                                                *)
(* ---------------------------------------------------------------------- *)

\* The display names a join-room event may carry: a name, or the empty string.
DeclaredNames == UserNames \cup {""}

JoinDeclared == \E s \in SocketIds, r \in RoomIds, u \in UserIds, n \in DeclaredNames :
                    CountedJoin(MaxJoins, s, r, u, n)

NextValidation ==
    \/ Connect
    \/ JoinDeclared
    \/ Leave
    \/ Drop

SpecValidation == Init /\ [][NextValidation]_vars

(* ---------------------------------------------------------------------- *)
(* What the registry says about an identity and about a session.           *)
(* ---------------------------------------------------------------------- *)

\* The rooms that hold a participant record for userId.
UserRooms(rs, userId) == {r \in DOMAIN rs : MapHas(rs[r].participants, userId)}

\* The rooms that hold a participant record whose socketId is s.
SessionRooms(rs, s) ==
    {r \in DOMAIN rs : \E i \in 1..Len(rs[r].participants) :
                          rs[r].participants[i].socketId = s}

\* The sessions stored in the participant records of userId.
SessionsOf(rs, userId) ==
    {MapGet(rs[r].participants, userId).socketId : r \in UserRooms(rs, userId)}

\* s is the session stored in the record of userId in roomId.
Registered(rs, s, roomId, userId) ==
    /\ roomId \in DOMAIN rs
    /\ MapHas(rs[roomId].participants, userId)
    /\ MapGet(rs[roomId].participants, userId).socketId = s

RelayKinds == {"offer", "answer", "ice-candidate"}

RoomFullError(s) == [event |-> "room-error", to |-> s, message |-> "Room is full"]

(* ---------------------------------------------------------------------- *)
(* C1                                                                      *)
(* ---------------------------------------------------------------------- *)

\* C1: an offer, answer or ice-candidate sent by a session whose participant
\* records are in rooms that do not hold the target identity, while the
\* target identity is a participant of some other room, is delivered to no
\* session of the target identity.
C1_CrossRoomRelayNotDelivered ==
    [][\A kind \in RelayKinds, s \in SocketIds, to \in UserIds, from \in UserIds :
          ( /\ SessionRooms(rooms, s) # {}
            /\ UserRooms(rooms, to) # {}
            /\ SessionRooms(rooms, s) \cap UserRooms(rooms, to) = {}
            /\ Relay(kind, s, to, from) )
          => \A m \in sent' : m.to \notin SessionsOf(rooms, to)]_vars

(* ---------------------------------------------------------------------- *)
(* C2                                                                      *)
(* ---------------------------------------------------------------------- *)

\* C2: every participant record (userId u, socketId s) stored in a room has
\* its index entry, and the entry agrees with the record:
\* userSocketMap[u] = s.  (The claim's second half, that leaveRoom removes
\* the record and the index entry together, is what leaveRoom does; the
\* agreement is the half that can fail.)
C2_RecordHasIndexEntry ==
    \A r \in DOMAIN rooms : \A i \in 1..Len(rooms[r].participants) :
        LET p == rooms[r].participants[i]
        IN  /\ p.userId \in DOMAIN userSocketMap
            /\ userSocketMap[p.userId] = p.socketId

(* ---------------------------------------------------------------------- *)
(* C3                                                                      *)
(* ---------------------------------------------------------------------- *)

\* C3: every identity is a participant of at most one room.
C3_AtMostOneRoom ==
    \A u \in UserIds : Cardinality(UserRooms(rooms, u)) <= 1

(* ---------------------------------------------------------------------- *)
(* C4                                                                      *)
(* ---------------------------------------------------------------------- *)

\* C4: the participant count of every room equals the number of distinct
\* identities with a successful join of that room not followed by a leave,
\* and lies between 0 and maxRoomSize.
C4_CountMatchesJoins ==
    \A r \in RoomIds :
        LET n == Len(getRoomParticipants(rooms, r))
        IN  /\ n = Cardinality(joined[r])
            /\ n >= 0
            /\ n <= maxRoomSize

\* A join-room event has just been refused by a room that holds maxRoomSize
\* participants, each of them joined and not left.
C4_Witness ==
    \E r \in DOMAIN rooms, s \in SocketIds :
        /\ Len(rooms[r].participants) = maxRoomSize
        /\ Cardinality(joined[r]) = maxRoomSize
        /\ sent = {RoomFullError(s)}

(* ---------------------------------------------------------------------- *)
(* C5                                                                      *)
(* ---------------------------------------------------------------------- *)

\* C5: a join-room event for a room that holds maxRoomSize participants or
\* more changes neither the rooms, nor userSocketMap, nor the broadcast
\* groups, and the only message it sends is the room-error "Room is full"
\* to the joining session.
C5_FullRoomJoinChangesNothing ==
    [][\A s \in SocketIds, r \in RoomIds, u \in UserIds, n \in UserNames :
          ( /\ Len(getRoomParticipants(rooms, r)) >= maxRoomSize
            /\ JoinRoomEvent(s, r, u, n) )
          => /\ rooms' = rooms
             /\ userSocketMap' = userSocketMap
             /\ groups' = groups
             /\ sent' = {RoomFullError(s)}]_vars

\* A third identity, from a session that is in no group, has just been
\* refused by a full room.
C5_Witness ==
    \E r \in DOMAIN rooms, s \in connected :
        /\ Len(rooms[r].participants) >= maxRoomSize
        /\ sent = {RoomFullError(s)}
        /\ s \notin groups[r]
        /\ usersSeen > maxRoomSize

(* ---------------------------------------------------------------------- *)
(* C6                                                                      *)
(* ---------------------------------------------------------------------- *)

\* C6: no room of the rooms map is without participants, and a join-room
\* event for a roomId that is not in the rooms map creates a room record
\* whose createdAt is the time of that event and whose only participant is
\* the joiner.
C6_NoEmptyRoom ==
    /\ [](\A r \in DOMAIN rooms : Len(rooms[r].participants) > 0)
    /\ [][\A r \in RoomIds :
             (r \notin DOMAIN rooms /\ r \in DOMAIN rooms')
             => /\ rooms'[r].createdAt = now
                /\ Len(rooms'[r].participants) = 1
                /\ rooms'[r].participants[1].joinedAt = now]_vars

\* Room r1 was left by its only participant u1 and removed, and at minute 6
\* the join of u2 has created it again: the acknowledgement lists no other
\* participant.
C6_Witness ==
    /\ joins = 2 /\ usersSeen = 2 /\ roomsSeen = 1
    /\ now = 6
    /\ "r1" \in DOMAIN rooms
    /\ rooms["r1"].createdAt = 6
    /\ \E m \in sent : /\ m.event = "room-joined"
                       /\ m.userId = "u2"
                       /\ m.participants = << >>

(* ---------------------------------------------------------------------- *)
(* C7                                                                      *)
(* ---------------------------------------------------------------------- *)

\* C7: from every reachable registry, leaveRoom(roomId, userId) called twice
\* leaves the rooms map and userSocketMap that one call leaves.
C7_LeaveRoomIdempotent ==
    \A r \in RoomIds, u \in UserIds :
        leaveRoom(leaveRoom(Registry, r, u), r, u) = leaveRoom(Registry, r, u)

\* A room holds a participant and somebody else: the first leaveRoom of that
\* participant removes the record and the index entry and keeps the room.
C7_Witness ==
    \E r \in DOMAIN rooms, u \in UserIds :
        /\ MapHas(rooms[r].participants, u)
        /\ leaveRoom(Registry, r, u) # Registry
        /\ r \in DOMAIN leaveRoom(Registry, r, u).rooms
        /\ u \in DOMAIN userSocketMap

(* ---------------------------------------------------------------------- *)
(* C8                                                                      *)
(* ---------------------------------------------------------------------- *)

\* C8: leaveRoom(roomId, userId) for a userId that is not a participant of
\* roomId leaves the rooms map and the whole userSocketMap as they are.
C8_LeaveOfNonMemberIsNoOp ==
    \A r \in RoomIds, u \in UserIds :
        ~(r \in DOMAIN rooms /\ MapHas(rooms[r].participants, u))
        => leaveRoom(Registry, r, u) = Registry

(* ---------------------------------------------------------------------- *)
(* C9                                                                      *)
(* ---------------------------------------------------------------------- *)

\* C9: when s is the session stored in the record of u in room r, the
\* disconnect of s leaves the registry that leaveRoom(r, u) leaves.
C9_DisconnectEqualsLeave ==
    [][\A s \in SocketIds, r \in RoomIds, u \in UserIds :
          (Registered(rooms, s, r, u) /\ Disconnect(s))
          => [rooms |-> rooms', userSocketMap |-> userSocketMap']
                = leaveRoom(Registry, r, u)]_vars

(* ---------------------------------------------------------------------- *)
(* C10                                                                     *)
(* ---------------------------------------------------------------------- *)

\* C10: a join-room event for an identity that is a participant of that
\* room is answered with an error to the joining session and leaves the
\* participant record and userSocketMap as they are.
C10_DuplicateJoinRejected ==
    [][\A s \in SocketIds, r \in RoomIds, u \in UserIds, n \in UserNames :
          ( /\ r \in DOMAIN rooms
            /\ MapHas(rooms[r].participants, u)
            /\ JoinRoomEvent(s, r, u, n) )
          => /\ \E m \in sent' : m.event = "room-error" /\ m.to = s
             /\ MapGet(rooms'[r].participants, u) = MapGet(rooms[r].participants, u)
             /\ userSocketMap' = userSocketMap]_vars

(* ---------------------------------------------------------------------- *)
(* C11                                                                     *)
(* ---------------------------------------------------------------------- *)

\* C11: a join-room event with an empty userName is answered with an error
\* to the joining session and changes neither the rooms map (no room is
\* created, no participant record is added) nor userSocketMap.
C11_EmptyFieldJoinRejected ==
    [][\A s \in SocketIds, r \in RoomIds, u \in UserIds :
          JoinRoomEvent(s, r, u, "")
          => /\ \E m \in sent' : m.event = "room-error" /\ m.to = s
             /\ rooms' = rooms
             /\ userSocketMap' = userSocketMap]_vars

(* ---------------------------------------------------------------------- *)
(* C12                                                                     *)
(* ---------------------------------------------------------------------- *)

\* C12: an offer, answer or ice-candidate sent by a session that is stored
\* in no participant record is delivered to no session.
C12_UnregisteredSenderDropped ==
    [][\A kind \in RelayKinds, s \in SocketIds, to \in UserIds, from \in UserIds :
          ( /\ SessionRooms(rooms, s) = {}
            /\ Relay(kind, s, to, from) )
          => sent' = {}]_vars

(* ---------------------------------------------------------------------- *)
(* C13                                                                     *)
(* ---------------------------------------------------------------------- *)

\* The identities of the participant records that store session s.
IdentitiesOf(rs, s) ==
    {u \in UserIds : \E r \in DOMAIN rs : Registered(rs, s, r, u)}

\* C13: the `from` delivered with an offer, answer or ice-candidate sent by
\* a session that is stored in a participant record is an identity the
\* registry holds for that session.
C13_FromIsRegisteredIdentity ==
    [][\A kind \in RelayKinds, s \in SocketIds, to \in UserIds, from \in UserIds :
          ( /\ SessionRooms(rooms, s) # {}
            /\ Relay(kind, s, to, from) )
          => \A m \in sent' : m.from \in IdentitiesOf(rooms, s)]_vars

(* ---------------------------------------------------------------------- *)
(* C14                                                                     *)
(* ---------------------------------------------------------------------- *)

\* C14: an offer, answer or ice-candidate whose target identity is a
\* participant of no room is delivered to no session, and no message at all
\* (no error to the sender either) is sent.  That is: a step either sends
\* nothing, or it is not a relay to such a target.
C14_AbsentTargetDropped ==
    [][\/ sent' = {}
       \/ \A to \in UserIds :
             UserRooms(rooms, to) = {}
             => \A kind \in RelayKinds, s \in SocketIds, from \in UserIds :
                   ~Relay(kind, s, to, from)]_vars

\* A relay has just been dropped for want of its target: the target identity
\* had joined, is now a participant of no room, and every session that ever
\* connected, the target's former one among them, is still connected.
C14_Witness ==
    \E i \in 1..usersSeen :
        /\ logged = {TargetNotFound(UserOrder[i])}
        /\ UserRooms(rooms, UserOrder[i]) = {}
        /\ sent = {}
        /\ closed = {}
        /\ Cardinality(connected) = Len(SocketOrder)

(* ---------------------------------------------------------------------- *)
(* C15                                                                     *)
(* ---------------------------------------------------------------------- *)

Idle(p, t) == t - p.lastSeen > timeout

\* The records one run of cleanup() removes are exactly the idle ones.
CleanupEvictsIdle ==
    \A r \in DOMAIN rooms : \A i \in 1..Len(rooms[r].participants) :
        LET p == rooms[r].participants[i]
        IN  Idle(p, now) => ~(r \in DOMAIN rooms' /\ MapHas(rooms'[r].participants, p.userId))

\* The records that are not idle stay as they are, and so do their index
\* entries.
CleanupKeepsFresh ==
    \A r \in DOMAIN rooms : \A i \in 1..Len(rooms[r].participants) :
        LET p == rooms[r].participants[i]
        IN  ~Idle(p, now)
            => /\ r \in DOMAIN rooms'
               /\ MapHas(rooms'[r].participants, p.userId)
               /\ MapGet(rooms'[r].participants, p.userId) = p
               /\ p.userId \in DOMAIN userSocketMap
                    => /\ p.userId \in DOMAIN userSocketMap'
                       /\ userSocketMap'[p.userId] = userSocketMap[p.userId]

\* The rooms that are deleted are exactly those whose participants were all
\* idle.
CleanupDeletesEmptied ==
    \A r \in DOMAIN rooms :
        r \notin DOMAIN rooms'
        <=> \A i \in 1..Len(rooms[r].participants) : Idle(rooms[r].participants[i], now)

\* C16: one run of cleanup() removes exactly the participants idle for more
\* than 5 minutes, leaves the other participants and their index entries
\* untouched, and deletes exactly the rooms whose last participant it
\* evicted.
C16_CleanupExact ==
    [][Cleanup => /\ CleanupEvictsIdle
                  /\ CleanupKeepsFresh
                  /\ CleanupDeletesEmptied
                  /\ DOMAIN rooms' \subseteq DOMAIN rooms]_vars

(* ---------------------------------------------------------------------- *)
(* C17                                                                     *)
(* ---------------------------------------------------------------------- *)

\* C17: when a run of cleanup() evicts identity u from a room that keeps
\* other participants, a user-left naming u is sent to the session of every
\* participant that stays in the room.
C17_EvictionNotified ==
    [][Cleanup
       => \A pair \in StalePairs(rooms, now) :
             pair[1] \in DOMAIN rooms'
             => \A i \in 1..Len(rooms'[pair[1]].participants) :
                   \E m \in sent' : /\ m.event = "user-left"
                                    /\ m.userId = pair[2]
                                    /\ m.to = rooms'[pair[1]].participants[i].socketId]_vars

(* ---------------------------------------------------------------------- *)
(* C18                                                                     *)
(* ---------------------------------------------------------------------- *)

\* C18: a send-message event that names a roomId and a userId such that
\* userId is not a participant of roomId delivers new-message to no session.
C18_NonMemberMessageDropped ==
    [][\A s \in SocketIds, r \in RoomIds, u \in UserIds, n \in UserNames :
          ( /\ ~(r \in DOMAIN rooms /\ MapHas(rooms[r].participants, u))
            /\ SendMessage(s, r, u, n) )
          => sent' = {}]_vars

(* ---------------------------------------------------------------------- *)
(* C19                                                                     *)
(* ---------------------------------------------------------------------- *)

\* C19: a send-message event for room r sent by the session stored in the
\* record of a participant u of r, in the name of u, delivers new-message
\* to the session stored in the record of every participant of r, the
\* sender's own session included.
C19_MessageReachesEveryParticipant ==
    [][\A s \in SocketIds, r \in RoomIds, u \in UserIds, n \in UserNames :
          ( /\ Registered(rooms, s, r, u)
            /\ SendMessage(s, r, u, n) )
          => \A i \in 1..Len(rooms[r].participants) :
                \E m \in sent' : /\ m.event = "new-message"
                                 /\ m.to = rooms[r].participants[i].socketId]_vars

(* ---------------------------------------------------------------------- *)
(* C20                                                                     *)
(* ---------------------------------------------------------------------- *)

\* The userIds a room-joined acknowledgement lists.
Listed(ack) == {ack.participants[i].userId : i \in 1..Len(ack.participants)}

\* The identities of the participants of roomId.
Members(rs, roomId) ==
    {getRoomParticipants(rs, roomId)[i].userId
        : i \in 1..Len(getRoomParticipants(rs, roomId))}

\* The room-joined sent to s lists exactly the participants of r other than u.
AckListsOthers(s, r, u) ==
    \E ack \in sent' :
        /\ ack.event = "room-joined"
        /\ ack.to = s
        /\ Len(ack.participants) = Cardinality(Listed(ack))
        /\ Listed(ack) = Members(rooms', r) \ {u}
        /\ Listed(ack) = Members(rooms, r) \ {u}

\* C20: a join-room event of identity u for room r that is not refused
\* sends the joiner a room-joined that lists exactly the participants of r
\* other than u, delivers a user-joined naming u to the session of every
\* other participant of r (a participant whose record stores the joiner's
\* own session aside), and delivers no user-joined to the joiner.
C20_JoinAckAndNotice ==
    [][\A s \in SocketIds, r \in RoomIds, u \in UserIds, n \in UserNames :
          ( /\ ~RoomIsFull(createRoom(rooms, r, now)[r])
            /\ JoinRoomEvent(s, r, u, n) )
          => /\ AckListsOthers(s, r, u)
             /\ \A i \in 1..Len(rooms'[r].participants) :
                   ( /\ rooms'[r].participants[i].userId # u
                     /\ rooms'[r].participants[i].socketId # s )
                   => \E m \in sent' : /\ m.event = "user-joined"
                                       /\ m.userId = u
                                       /\ m.to = rooms'[r].participants[i].socketId
             /\ \A m \in sent' : m.event = "user-joined" => m.to # s]_vars

(* ---------------------------------------------------------------------- *)
(* C21                                                                     *)
(* ---------------------------------------------------------------------- *)

\* What updateParticipantStatus(r, u, {field: e}) may change on the way from
\* the rooms map rs to the rooms map rs2 at time t: in the record of u in r,
\* field becomes e and lastSeen becomes t; every other field, every other
\* record, the order of the records, the room records and the set of rooms
\* stay as they are.  Nothing changes when r does not exist or does not
\* hold u.
StatusFrame(rs, rs2, r, u, field, e, t) ==
    /\ DOMAIN rs2 = DOMAIN rs
    /\ \A q \in DOMAIN rs :
          /\ rs2[q].createdAt = rs[q].createdAt
          /\ rs2[q].active = rs[q].active
          /\ Len(rs2[q].participants) = Len(rs[q].participants)
          /\ \A i \in 1..Len(rs[q].participants) :
                LET a == rs[q].participants[i]
                    b == rs2[q].participants[i]
                IN  IF q = r /\ a.userId = u
                    THEN b = [a EXCEPT ![field] = e, !.lastSeen = t]
                    ELSE b = a
    /\ ~(r \in DOMAIN rs /\ MapHas(rs[r].participants, u)) => rs2 = rs

\* The updates the toggle-video and toggle-audio handlers pass on.
StatusFields == {"videoEnabled", "audioEnabled"}

\* C21: from every reachable rooms map, updateParticipantStatus(roomId,
\* userId, updates) changes only the field of updates and lastSeen on the
\* record of userId in roomId, and nothing when userId is not a participant
\* of roomId or roomId does not exist; and userSocketMap changes in no step
\* but a join-room event (the toggles, which call it, leave it alone).
C21_StatusUpdateFrame ==
    /\ [](\A r \in RoomIds, u \in UserIds, field \in StatusFields, e \in BOOLEAN :
            StatusFrame(rooms,
                        updateParticipantStatus(rooms, r, u, [f \in {field} |-> e], now),
                        r, u, field, e, now))
    /\ [][joins' = joins => userSocketMap' = userSocketMap]_vars

\* At minute 6 the video of the first participant of a room has just been
\* switched off: its lastSeen is 6, its audio flag and joinedAt are as they
\* were, and the second participant of the room still has lastSeen 0.
C21_Witness ==
    \E r \in DOMAIN rooms :
        /\ Len(rooms[r].participants) = 2
        /\ rooms[r].participants[1].videoEnabled = FALSE
        /\ rooms[r].participants[1].audioEnabled = TRUE
        /\ rooms[r].participants[1].joinedAt = 0
        /\ rooms[r].participants[1].lastSeen = 6
        /\ rooms[r].participants[2].lastSeen = 0
        /\ \E m \in sent : m.event = "video-toggled" /\ m.enabled = FALSE

(* ---------------------------------------------------------------------- *)
(* C22                                                                     *)
(* ---------------------------------------------------------------------- *)

\* The step is a send-message, raise-hand or screen-share event that
\* session s sends for room r in the name of u.
InboundEvent(s, r, u) ==
    \/ \E n \in UserNames : SendMessage(s, r, u, n)
    \/ \E n \in UserNames : RaiseHand(s, r, u, n)
    \/ StartScreenShare(s, r, u)
    \/ StopScreenShare(s, r, u)

\* C22: a send-message, raise-hand or screen-share event for room r sent
\* by the session stored in the record of participant u of r, in the name
\* of u, refreshes the lastSeen of that record (so that cleanup() does not
\* evict the participant during the 5 minutes that follow).
C22_EventRefreshesLastSeen ==
    [][\A s \in SocketIds, r \in RoomIds, u \in UserIds :
          ( /\ Registered(rooms, s, r, u)
            /\ InboundEvent(s, r, u) )
          => /\ Registered(rooms', s, r, u)
             /\ MapGet(rooms'[r].participants, u).lastSeen = now]_vars

(* ---------------------------------------------------------------------- *)
(* C23                                                                     *)
(* ---------------------------------------------------------------------- *)

\* The sockets stored in the records of room roomId of registry rs that
\* are in the set of open sockets conn.
OpenSessions(rs, roomId, conn) ==
    IF roomId \in DOMAIN rs
    THEN {rs[roomId].participants[i].socketId : i \in 1..Len(rs[roomId].participants)}
             \cap conn
    ELSE {}

\* C23: when session s closes abruptly and handleUserDisconnect finds the
\* record of u in room r under s, u is removed from r and a user-left
\* notice naming u is delivered to the open session of every participant
\* that remains in r.
C23_DisconnectNoticeReachesRoom ==
    [][\A s \in SocketIds :
          Disconnect(s) =>
              \A p \in DisconnectPairs(rooms, s) :
                  /\ p[1] \notin UserRooms(rooms', p[2])
                  /\ \A t \in OpenSessions(rooms', p[1], connected') :
                        \E m \in sent' : /\ m.event = "user-left"
                                         /\ m.roomId = p[1]
                                         /\ m.userId = p[2]
                                         /\ m.to = t]_vars

(* ---------------------------------------------------------------------- *)
(* C24                                                                     *)
(* ---------------------------------------------------------------------- *)

\* Identity u has been taken out of room r in registry reg: r holds no
\* record of u and the index holds no entry of u.
Evicted(reg, r, u) ==
    /\ r \notin UserRooms(reg.rooms, u)
    /\ u \notin DOMAIN reg.userSocketMap

\* The registry after the step.
RegistryNext == [rooms |-> rooms', userSocketMap |-> userSocketMap']

\* The registry a reaper sweep leaves holds none of the identities it
\* evicts, and the registry a leave-room event leaves does not hold the
\* participant it names.
FirstEvicts ==
    /\ \A p \in StalePairs(rooms, now) :
          Evicted(leaveAll(Registry, StalePairs(rooms, now)), p[1], p[2])
    /\ \A r \in RoomIds, u \in UserIds :
          r \in UserRooms(rooms, u) => Evicted(leaveRoom(Registry, r, u), r, u)

\* Only a join-room event of u itself brings u back.
OnlyOwnJoinRestores ==
    \A r \in RoomIds, u \in UserIds :
        (Evicted(Registry, r, u) /\ ~Evicted(RegistryNext, r, u))
        => \E s \in SocketIds, rr \in RoomIds, n \in UserNames : JoinRoomEvent(s, rr, u, n)

\* On an identity that is out of the room, leaveRoom changes nothing and a
\* sweep does not call leaveRoom.
SecondIsNoOp ==
    \A r \in RoomIds, u \in UserIds :
        Evicted(Registry, r, u)
        => /\ leaveRoom(Registry, r, u) = Registry
           /\ <<r, u>> \notin StalePairs(rooms, now)

\* C24: whichever of a reaper sweep evicting u from r and a leave-room(r, u)
\* event is processed first, it takes u out of r and out of the index; u
\* stays out while events other than a join-room of u are processed; and
\* on such a registry the other of the two changes nothing for u: the
\* leaveRoom of the leave-room event returns the registry it was given and
\* the sweep does not evict u again.
C24_SecondEvictionIsNoOp ==
    /\ [](FirstEvicts /\ SecondIsNoOp)
    /\ [][OnlyOwnJoinRestores]_vars

\* The sweep has just evicted u from a room that still has another
\* participant, while the session that joined as u is still open.
C24_Witness ==
    \E r \in DOMAIN rooms, u \in UserIds :
        /\ CleanedUp(r, u) \in logged
        /\ Evicted(Registry, r, u)
        /\ connected \cap groups[r] # {}
        /\ Len(rooms[r].participants) = 1

(* ---------------------------------------------------------------------- *)
(* C25                                                                     *)
(* ---------------------------------------------------------------------- *)

\* Room r of rs holds a record of u that nothing has refreshed since time t.
SilentIn(rs, r, u, t) ==
    /\ r \in UserRooms(rs, u)
    /\ MapGet(rs[r].participants, u).lastSeen = t

SilentSince(r, u, t) == SilentIn(rooms, r, u, t)

\* The times a record can have been last refreshed at such that the clock
\* gets more than the reaper's threshold past them.
SilentTimes == {t \in 0..MaxTime : t + timeout < MaxTime}

\* The step that ends the silence of a record either refreshes or replaces
\* the record, or takes u out of r and out of userSocketMap; and it leaves
\* r deleted or with a record in it.
SilentEnds ==
    \A r \in RoomIds, u \in UserIds, t \in SilentTimes :
        (SilentSince(r, u, t) /\ ~SilentIn(rooms', r, u, t))
        => /\ r \in UserRooms(rooms', u) \/ Evicted(RegistryNext, r, u)
           /\ r \notin DOMAIN rooms' \/ Len(rooms'[r].participants) > 0

\* C25: a participant u of room r whose record is never refreshed again
\* (no heartbeat, toggle or rejoin) is eventually out of r and out of
\* userSocketMap, and if r holds no other record r is deleted with it,
\* provided time goes on and the cleanup timer keeps firing: a record last
\* refreshed at t does not stay for ever, and when it goes without having
\* been refreshed, the index entry and the emptied room go with it.
C25_SilentParticipantEvicted ==
    /\ \A r \in RoomIds, u \in UserIds, t \in SilentTimes : []<>~SilentSince(r, u, t)
    /\ [][SilentEnds]_vars

\* The sweep has evicted the only participant of a room, who had joined
\* before the clock went on and whose session is still open and still in
\* the room's group; the room is deleted.
C25_Witness ==
    \E r \in RoomIds, u \in UserIds :
        /\ CleanedUp(r, u) \in logged
        /\ r \notin DOMAIN rooms
        /\ u \notin DOMAIN userSocketMap
        /\ connected \cap groups[r] # {}
        /\ now > timeout

(* ---------------------------------------------------------------------- *)
(* C26                                                                     *)
(* ---------------------------------------------------------------------- *)

\* In the Maps sig, socket s is the session stored in a participant record
\* of some room that also holds a record of identity to.
SameRoomMembers(sig, s, to) ==
    \E r \in DOMAIN sig.rooms :
        /\ \E i \in 1..Len(sig.rooms[r]) : sig.rooms[r][i].socketId = s
        /\ MapHas(sig.rooms[r], to)

\* C26: in the socketToUser-based server, an offer, answer or ice-candidate
\* of socket s for identity to is forwarded only if, when the event is
\* handled, s is the session stored in a current participant record of
\* some room and to is a current participant of that same room.
C26_RelayOnlyBetweenRoomMembers ==
    [][\A m \in sent' :
          m.event \in RelayKinds
          => \A s \in SocketIds, to \in UserIds :
                SignalRelay(m.event, s, to, m.from) => SameRoomMembers(signaling, s, to)]_vars

(* ---------------------------------------------------------------------- *)
(* C27                                                                     *)
(* ---------------------------------------------------------------------- *)

\* The events a handler delivers to the broadcast group of a room.
BroadcastKinds ==
    {"user-joined", "user-left", "new-message", "hand-raised",
     "screen-share-started", "screen-share-stopped"}

\* The step is the handling of an event of socket s that broadcasts to
\* room r in the name of u.
BroadcastEvent(s, r, u) ==
    \/ \E n \in UserNames : JoinRoomEvent(s, r, u, n)
    \/ LeaveRoomEvent(s, r, u)
    \/ InboundEvent(s, r, u)

\* C27: a broadcast for room r is delivered only to sessions that are,
\* when it is delivered, the session stored in the record of a participant
\* of r.
C27_BroadcastOnlyToParticipants ==
    [][\A m \in sent' :
          m.event \in BroadcastKinds
          => \A s \in SocketIds, r \in RoomIds, u \in UserIds :
                BroadcastEvent(s, r, u) => m.to \in OpenSessions(rooms', r, SocketIds)]_vars

(* ---------------------------------------------------------------------- *)
(* C28                                                                     *)
(* ---------------------------------------------------------------------- *)

\* C28: once the disconnect of session s has been handled, no participant
\* record of any room stores s and no userSocketMap entry maps to s.
C28_DisconnectClearsSession ==
    [][\A s \in SocketIds :
          Disconnect(s)
          => /\ SessionRooms(rooms', s) = {}
             /\ \A u \in DOMAIN userSocketMap' : userSocketMap'[u] # s]_vars

(* ---------------------------------------------------------------------- *)
(* C29                                                                     *)
(* ---------------------------------------------------------------------- *)

\* C29: every entry of userSocketMap is backed by a membership: if it maps
\* u to s, some room holds a record of u whose socketId is s.
C29_IndexBackedByMembership ==
    \A u \in DOMAIN userSocketMap :
        \E r \in DOMAIN rooms : Registered(rooms, userSocketMap[u], r, u)

\* One identity has left a room that another identity stays in: the index
\* holds the entry of the one that stays and none of the one that left.
C29_Witness ==
    \E r \in DOMAIN rooms, u \in UserIds, v \in UserIds :
        /\ u # v
        /\ u \in DOMAIN userSocketMap
        /\ Registered(rooms, userSocketMap[u], r, u)
        /\ v \notin DOMAIN userSocketMap
        /\ \E m \in sent : m.event = "user-left" /\ m.userId = v /\ m.roomId = r

====
